---- MODULE Spec2Model ----
(***************************************************************************)
(* State-machine model of the ethstr contracts: NpubAccountFactory         *)
(* (CREATE2 registry of NpubAccount proxies), NpubAccount (owner, UUPS     *)
(* upgrade, EntryPoint deposit) and the NostrSignatures / BIP340Ecrec      *)
(* verification libraries.                                                 *)
(*                                                                         *)
(* Scaling.  TLC integers are 32 bit, so the 256-bit quantities are        *)
(* scaled: uint256 is the range 0..UintMax, and secp256k1 is replaced by   *)
(* the curve y^2 = x^3 + 7 over F_43, which has prime order 31, p = 3      *)
(* (mod 4), n < p < 2^6 and no point with x = 0, as secp256k1 has.         *)
(*                                                                         *)
(* Hashes.  keccak256 (CREATE2 address, ecrecover address) is modelled as  *)
(* an injective encoding of its preimage (collision freedom is assumed,    *)
(* not checked).  The BIP340 challenge hash is an arbitrary function of    *)
(* its input: the challenge e is an input of the verification.             *)
(***************************************************************************)
EXTENDS Integers, Sequences, FiniteSets, TLC

VARIABLES
    accounts,   \* deployed ERC1967 proxies: address -> NpubAccount storage
    balances,   \* EntryPoint deposits: account -> amount
    ledger,     \* per account: value sent with the successful deposits minus
                \* the amounts of the successful withdrawals
    log,        \* per key (owner, salt): results of the factory calls made, in order
    lastCall,   \* result of the most recent account or library call
    inp,        \* inputs of the verification scenario (SpecVerify)
    hook,       \* useNostrConnection: store fields, hook state, attempts
    tx          \* sendTransaction / sendERC20Transfer: call, watchers, relays

vars == <<accounts, balances, ledger, log, lastCall, inp, hook, tx>>

NoHook ==
    [nPubkey |-> FALSE, publicClient |-> FALSE, evmAccount |-> FALSE,
     isRestoring |-> FALSE, restoreError |-> "null", deps |-> <<>>,
     running |-> 0, rejected |-> 0, ending |-> 0, started |-> 0,
     step |-> "mount"]

NoTx ==
    [fn |-> "none", call |-> 0, pc |-> "idle", signature |-> FALSE,
     watchers |-> {}, regAt |-> 0, promise |-> "none", hash |-> 0,
     result |-> 0, relays |-> {}, events |-> 0]

(***************************************************************************)
(* Bounds of the model                                                     *)
(***************************************************************************)
MaxCalls == 3       \* factory calls (createAccount, getAddress) per run
MaxDeposit == 1     \* largest EntryPoint deposit of one account
MaxAttempts == 3    \* restoration attempts launched by the hook per connection
MaxSends == 2       \* calls of sendTransaction / sendERC20Transfer per run
MaxEvents == 2      \* UserOperationEvent logs of the sender per run

(***************************************************************************)
(* Program constants (scaled, see above)                                   *)
(***************************************************************************)
PP == 43            \* Secp256k1.PP, the field prime
NN == 31            \* Secp256k1.NN, the group order
AA == 0             \* Secp256k1.AA
BB == 7             \* Secp256k1.BB
GX == 2             \* Secp256k1.GX, the generator (2, 12)
GY == 12            \* Secp256k1.GY
UintBits == 6                   \* width of a machine word in the model
UintMax == (2 ^ UintBits) - 1   \* type(uint256).max
UINT64_MAX == (2 ^ UintBits) - 1 \* type(uint64).max, Initializable's "disabled"
SIGNATURE_LENGTH == 64   \* NostrSignatures.SIGNATURE_LENGTH
NOSTR_AUTH_KIND == 96024
NOSTR_CREATED_AT == 0

(***************************************************************************)
(* Addresses.  Every address is a record of one shape, so that any two     *)
(* can be compared.                                                        *)
(***************************************************************************)
FixedAddr(name, i) == [kind |-> name, salt |-> 0, impl |-> i, owner |-> 0]

ZeroAddr == FixedAddr("zero", 0)
Factory == FixedAddr("factory", 0)
EOA == FixedAddr("eoa", 0)
Recipient == FixedAddr("eoa", 1)

\* The NpubAccount implementations: 1 is the one the factory deploys in its
\* constructor, 2 a later NpubAccount deployed for the same EntryPoint.
ImplIds == {1, 2}
ImplAddr(i) == FixedAddr("impl", i)
EntryPoint == FixedAddr("entrypoint", 0)
accountImplementation == 1

Owners == {0, GX, PP - 1}
Salts == {0, UintMax}
\* The keys the factory is called with: the zero owner, one owner under both
\* salts, two owners under one salt, the largest field element as owner
Keys == {<<0, 0>>, <<GX, 0>>, <<GX, UintMax>>, <<PP - 1, 0>>}

\* keccak256(creationCode ++ abi.encode(implementation, initialize(owner))):
\* the hash stands for its preimage.
InitCodeHash(implementation, anOwner) == [impl |-> implementation, owner |-> anOwner]

\* Create2.computeAddress(salt, bytecodeHash) with deployer address(this)
Create2ComputeAddress(salt, bytecodeHash) ==
    [kind |-> "create2", salt |-> salt, impl |-> bytecodeHash.impl,
     owner |-> bytecodeHash.owner]

\* The address at which the EVM's CREATE2 puts
\* new ERC1967Proxy{salt}(implementation, initialize(owner))
Create2Deploy(salt, implementation, anOwner) ==
    [kind |-> "create2", salt |-> salt, impl |-> implementation, owner |-> anOwner]

hasCode(addr) == addr \in DOMAIN accounts

getAddress_NoOwner(owner, salt) ==
    Create2ComputeAddress(salt, InitCodeHash(accountImplementation, 0))

getAddress_Nonce(owner, salt) ==
    Create2ComputeAddress((salt + Cardinality(DOMAIN accounts)) % (UintMax + 1),
                          InitCodeHash(accountImplementation, owner))

getAddress_CurrentImpl(owner, salt) ==
    LET a == Create2ComputeAddress(salt, InitCodeHash(accountImplementation, owner))
    IN  Create2ComputeAddress(salt,
            InitCodeHash(IF hasCode(a) THEN accounts[a].impl ELSE accountImplementation, owner))

\* NpubAccountFactory.getAddress
getAddress(owner, salt) ==
    Create2ComputeAddress(salt, InitCodeHash(accountImplementation, owner))

(***************************************************************************)
(* NpubAccount storage and initialization                                  *)
(***************************************************************************)
NoCall == [op |-> "none", status |-> "none"]

\* OpenZeppelin's initializer modifier on storage st in a context whose
\* code length is codeLength: the error it reverts with, or "ok".
initializer(st, codeLength) ==
    LET initialSetup == st.initialized = 0
        construction == st.initialized = 1 /\ codeLength = 0
    IN  IF ~initialSetup /\ ~construction THEN "InvalidInitialization" ELSE "ok"

_initialize_AcceptZero(st, anOwner) ==
    [status |-> "ok", st |-> [st EXCEPT !.owner = anOwner]]

_initialize_NoStore(st, anOwner) ==
    IF anOwner = 0
    THEN [status |-> "InvalidOwner", st |-> st]
    ELSE [status |-> "ok", st |-> st]

\* NpubAccount._initialize
_initialize(st, anOwner) ==
    IF anOwner = 0
    THEN [status |-> "InvalidOwner", st |-> st]
    ELSE [status |-> "ok", st |-> [st EXCEPT !.owner = anOwner]]

initialize_Unguarded(st, codeLength, anOwner) ==
    _initialize([st EXCEPT !.initialized = 1], anOwner)

\* NpubAccount.initialize under the initializer modifier
initialize(st, codeLength, anOwner) ==
    IF initializer(st, codeLength) # "ok"
    THEN [status |-> initializer(st, codeLength), st |-> st]
    ELSE _initialize([st EXCEPT !.initialized = 1], anOwner)

\* Storage of a proxy before its constructor runs
FreshStorage(implementation) == [owner |-> 0, initialized |-> 0, impl |-> implementation]

\* Storage of an implementation contract itself: the constructor's
\* _disableInitializers() leaves initialized = type(uint64).max
ImplStorage(i) == [owner |-> 0, initialized |-> UINT64_MAX, impl |-> i]

(***************************************************************************)
(* NpubAccountFactory                                                      *)
(***************************************************************************)
\* What the caller of a factory function observes: the status ("ok" or the
\* error of the revert), the returned address, the isNew flag of the
\* AccountCreated event; absent records whether the address getAddress
\* computes held no code when the call was made.
CreateEntry(status, ret, isNew, absent) ==
    [op |-> "createAccount", status |-> status, ret |-> ret, isNew |-> isNew,
     absent |-> absent]

GetEntry(ret, absent) ==
    [op |-> "getAddress", status |-> "ok", ret |-> ret, isNew |-> FALSE,
     absent |-> absent]

RECURSIVE SumLen(_, _)
SumLen(f, S) ==
    IF S = {} THEN 0
    ELSE LET k == CHOOSE x \in S : TRUE IN Len(f[k]) + SumLen(f, S \ {k})

\* Number of factory calls made so far
TotalCalls == SumLen(log, DOMAIN log)

Logged(owner, salt, entry) ==
    log' = [log EXCEPT ![<<owner, salt>>] = Append(@, entry)]

\* The outcome of new ERC1967Proxy{salt}(accountImplementation, initialize(owner)):
\* CREATE2 fails when the target address already holds code, the constructor
\* delegatecalls initialize(owner) on the fresh storage and reverts with it.
NewProxy(owner, salt) ==
    LET addr == Create2Deploy(salt, accountImplementation, owner)
        r == initialize(FreshStorage(accountImplementation), 0, owner)
    IN  IF hasCode(addr) THEN [status |-> "collision", addr |-> addr, st |-> r.st]
        ELSE [status |-> r.status, addr |-> addr, st |-> r.st]

\* The chain state after the proxy p is deployed
Deployed(p) ==
    /\ accounts' = [a \in DOMAIN accounts \cup {p.addr} |->
                       IF a = p.addr THEN p.st ELSE accounts[a]]
    /\ balances' = [a \in DOMAIN balances \cup {p.addr} |->
                       IF a \in DOMAIN balances THEN balances[a] ELSE 0]
    /\ ledger' = [a \in DOMAIN ledger \cup {p.addr} |->
                     IF a \in DOMAIN ledger THEN ledger[a] ELSE 0]

\* addr.code.length
codeSize_Zero(addr) == 0

codeSize(addr) == IF hasCode(addr) THEN 1 ELSE 0

createAccount_Gated(owner, salt) ==
    /\ TotalCalls < MaxCalls
    /\ Logged(owner, salt, CreateEntry("UnauthorizedCaller", ZeroAddr, FALSE,
                                       ~hasCode(getAddress(owner, salt))))
    /\ UNCHANGED <<accounts, balances, ledger, lastCall, inp, hook, tx>>

\* NpubAccountFactory.createAccount, one transaction
createAccount(owner, salt) ==
    LET addr == getAddress(owner, salt)
        p == NewProxy(owner, salt)
    IN  /\ TotalCalls < MaxCalls
        /\ IF codeSize(addr) > 0
           THEN /\ Logged(owner, salt, CreateEntry("ok", addr, FALSE, FALSE))
                /\ UNCHANGED <<accounts, balances, ledger>>
           ELSE IF p.status = "ok"
           THEN /\ Deployed(p)
                /\ Logged(owner, salt, CreateEntry("ok", p.addr, TRUE, TRUE))
           ELSE /\ Logged(owner, salt, CreateEntry("AccountCreationFailed", ZeroAddr, FALSE, TRUE))
                /\ UNCHANGED <<accounts, balances, ledger>>
        /\ UNCHANGED <<lastCall, inp, hook, tx>>

\* A call of NpubAccountFactory.getAddress
GetAddress(owner, salt) ==
    /\ TotalCalls < MaxCalls
    /\ Logged(owner, salt, GetEntry(getAddress(owner, salt), ~hasCode(getAddress(owner, salt))))
    /\ UNCHANGED <<accounts, balances, ledger, lastCall, inp, hook, tx>>

(***************************************************************************)
(* NpubAccount operations.  Each is an operator from the current state to  *)
(* an outcome [status, st, bal]: the status ("ok" or the error the call    *)
(* reverts with), the account's storage and the EntryPoint deposits after  *)
(* the call.  A reverted call leaves both as they were.                    *)
(***************************************************************************)
Call(fn, n, to, init) == [fn |-> fn, n |-> n, to |-> to, init |-> init]

Reverted(a, error) == [status |-> error, st |-> accounts[a], bal |-> balances]
Returned(st, bal) == [status |-> "ok", st |-> st, bal |-> bal]

\* NpubAccount.entryPoint(): the immutable of the current implementation
entryPoint(a) == EntryPoint

\* NpubAccount.getDeposit()
getDeposit(a) == balances[a]

_onlyOwner_Anyone(sender, a) == "ok"

\* NpubAccount._onlyOwner
_onlyOwner(sender, a) == IF sender # a THEN "UnauthorizedCaller" ELSE "ok"

\* NpubAccount._requireForExecute
_requireForExecute(sender, a) ==
    IF sender # entryPoint(a) /\ sender # a THEN "UnauthorizedCaller" ELSE "ok"

\* NpubAccount.initialize called on a deployed proxy
initializeCall(a, anOwner) ==
    LET r == initialize(accounts[a], 1, anOwner)
    IN  IF r.status = "ok" THEN Returned(r.st, balances) ELSE Reverted(a, r.status)

addDeposit_NoCredit(a, value) ==
    IF value = 0 THEN Reverted(a, "ZeroDepositAmount")
    ELSE Returned(accounts[a], balances)

\* NpubAccount.addDeposit
addDeposit(a, value) ==
    IF value = 0 THEN Reverted(a, "ZeroDepositAmount")
    ELSE Returned(accounts[a],
                  [balances EXCEPT ![a] = @ + value])

\* NpubAccount.withdrawDepositTo (onlyOwner runs before the body)
withdrawDepositTo(sender, a, withdrawAddress, amount) ==
    IF _onlyOwner(sender, a) # "ok" THEN Reverted(a, _onlyOwner(sender, a))
    ELSE IF withdrawAddress = ZeroAddr THEN Reverted(a, "InvalidWithdrawAddress")
    ELSE IF amount > getDeposit(a) THEN Reverted(a, "InsufficientDeposit")
    ELSE Returned(accounts[a],
                  [balances EXCEPT ![a] = @ - amount])

\* NpubAccount._authorizeUpgrade
_authorizeUpgrade(sender, a, newImplementation) ==
    IF newImplementation = ZeroAddr THEN "InvalidEntryPoint"
    ELSE _onlyOwner(sender, a)

IsImplementation(addr) == \E i \in ImplIds : addr = ImplAddr(i)

\* UUPSUpgradeable.upgradeToAndCall(newImplementation, data): data is empty
\* (init = -1) or initialize(init), which is delegatecalled on the proxy's
\* storage after the implementation slot is written.
upgradeToAndCall(sender, a, newImplementation, init) ==
    LET auth == _authorizeUpgrade(sender, a, newImplementation)
        st1 == [accounts[a] EXCEPT !.impl = newImplementation.impl]
        r == initialize(st1, 1, init)
    IN  IF auth # "ok" THEN Reverted(a, auth)
        ELSE IF ~IsImplementation(newImplementation)
        THEN Reverted(a, "ERC1967InvalidImplementation")
        ELSE IF init = -1 THEN Returned(st1, balances)
        ELSE IF r.status = "ok" THEN Returned(r.st, balances)
        ELSE Reverted(a, r.status)

\* A call of one of the account's own functions with msg.sender = sender
Dispatch(sender, a, c) ==
    CASE c.fn = "initialize" -> initializeCall(a, c.n)
      [] c.fn = "addDeposit" -> addDeposit(a, c.n)
      [] c.fn = "withdrawDepositTo" -> withdrawDepositTo(sender, a, c.to, c.n)
      [] c.fn = "upgradeToAndCall" -> upgradeToAndCall(sender, a, c.to, c.init)

\* BaseAccount.execute(dest, value, func) with dest the account itself: the
\* inner call runs with msg.sender = address(this) and its revert bubbles up.
execute(sender, a, c) ==
    IF _requireForExecute(sender, a) # "ok"
    THEN Reverted(a, _requireForExecute(sender, a))
    ELSE Dispatch(a, a, c)

\* The calls made on an account: initialize again (zero and non-zero owner),
\* deposits of 0 and 1, withdrawals of 1 to a recipient and to address(0),
\* upgrades to address(0), to an address without NpubAccount code and to the
\* second implementation, without and with initialize(GX) as call data
Calls ==
    {Call("initialize", o, ZeroAddr, -1) : o \in {0, GX}}
    \cup {Call("addDeposit", v, ZeroAddr, -1) : v \in {0, 1}}
    \cup {Call("withdrawDepositTo", 1, to, -1) : to \in {Recipient, ZeroAddr}}
    \cup {Call("upgradeToAndCall", 0, to, -1) : to \in {ZeroAddr, EOA, ImplAddr(2)}}
    \cup {Call("upgradeToAndCall", 0, ImplAddr(2), GX)}

\* The callers of execute with the calls they pass: the EntryPoint with every
\* call, an account that is neither the EntryPoint nor the account with one
ExecuteCalls ==
    ({EntryPoint} \X Calls) \cup {<<EOA, Call("upgradeToAndCall", 0, ImplAddr(2), -1)>>}

\* The deposit stays within the model's bound
WithinBound(r) == \A k \in DOMAIN r.bal : r.bal[k] <= MaxDeposit

\* What a call moves into the deposit by its own arguments: the value sent
\* with a successful addDeposit, minus the amount of a successful withdrawal
Moved(c, status) ==
    IF status # "ok" THEN 0
    ELSE IF c.fn = "addDeposit" THEN c.n
    ELSE IF c.fn = "withdrawDepositTo" THEN 0 - c.n
    ELSE 0

Commit(a, r, op, c) ==
    /\ WithinBound(r)
    /\ accounts' = [accounts EXCEPT ![a] = r.st]
    /\ balances' = r.bal
    /\ ledger' = [ledger EXCEPT ![a] = @ + Moved(c, r.status)]
    /\ lastCall' = [op |-> op, status |-> r.status]
    /\ UNCHANGED <<log, inp, hook, tx>>

\* A transaction calling the account's function directly
DirectCall(sender, a, c) ==
    /\ hasCode(a)
    /\ Commit(a, Dispatch(sender, a, c), c.fn, c)

\* A transaction calling execute(account, 0, c) on the account
ExecuteCall(sender, a, c) ==
    /\ hasCode(a)
    /\ Commit(a, execute(sender, a, c), "execute", c)

\* initialize called on an implementation contract itself
InitializeImplementation(i, anOwner) ==
    /\ lastCall' = [op |-> "initializeImplementation",
                    status |-> initialize(ImplStorage(i), 1, anOwner).status]
    /\ UNCHANGED <<accounts, balances, ledger, log, inp, hook, tx>>

(***************************************************************************)
(* CurveMath: field arithmetic and points of the curve.  A point is        *)
(* [inf, x, y]; the point at infinity has inf = TRUE.                      *)
(***************************************************************************)
mulmod(a, b, m) == (a * b) % m
addmod(a, b, m) == (a + b) % m

\* base^e mod m by square and multiply
RECURSIVE modExp(_, _, _)
modExp(base, e, m) ==
    IF e = 0 THEN 1 % m
    ELSE LET h == modExp(mulmod(base, base, m), e \div 2, m)
         IN  IF e % 2 = 1 THEN mulmod(base, h, m) ELSE h

\* EllipticCurve.expMod(base, e, m): modular exponentiation
expMod(base, e, m) == modExp(base, e, m)

\* Inverses modulo the field prime and modulo the group order
InvP == [a \in 1..(PP - 1) |-> CHOOSE b \in 1..(PP - 1) : mulmod(a, b, PP) = 1]
InvN == [a \in 1..(NN - 1) |-> CHOOSE b \in 1..(NN - 1) : mulmod(a, b, NN) = 1]

Infinity == [inf |-> TRUE, x |-> 0, y |-> 0]
Point(x, y) == [inf |-> FALSE, x |-> x, y |-> y]
G == Point(GX, GY)

OnCurve(x, y) == mulmod(y, y, PP) = addmod(mulmod(x, mulmod(x, x, PP), PP), BB, PP)

ecNeg(P) == IF P.inf THEN P ELSE Point(P.x, (PP - P.y) % PP)

ecAdd(P, Q) ==
    IF P.inf THEN Q
    ELSE IF Q.inf THEN P
    ELSE IF P.x = Q.x /\ (P.y + Q.y) % PP = 0 THEN Infinity
    ELSE LET l == IF P.x = Q.x
                  THEN mulmod(3 * mulmod(P.x, P.x, PP), InvP[(2 * P.y) % PP], PP)
                  ELSE mulmod((Q.y - P.y) % PP, InvP[(Q.x - P.x) % PP], PP)
             x3 == (mulmod(l, l, PP) - P.x - Q.x) % PP
         IN  Point(x3, (mulmod(l, (P.x - x3) % PP, PP) - P.y) % PP)

RECURSIVE ecMul(_, _)
ecMul(k, P) ==
    IF k = 0 THEN Infinity
    ELSE LET h == ecMul(k \div 2, ecAdd(P, P))
         IN  IF k % 2 = 1 THEN ecAdd(P, h) ELSE h

(***************************************************************************)
(* BIP340Util                                                              *)
(***************************************************************************)
\* address(uint160(uint256(keccak256(x ++ y)))): the hash stands for its
\* preimage
PointAddr(x, y) == [kind |-> "point", salt |-> x, impl |-> y, owner |-> 0]

liftX_Checked(x) ==
    LET ySquared == addmod(mulmod(x, mulmod(x, x, PP), PP),
                           addmod(mulmod(x, AA, PP), BB, PP), PP)
        root == expMod(ySquared, (PP + 1) \div 4, PP)
    IN  IF x >= PP \/ mulmod(root, root, PP) # ySquared
        THEN [y |-> 0, success |-> FALSE]
        ELSE [y |-> IF root % 2 = 0 THEN root ELSE PP - root, success |-> TRUE]

\* BIP340Util.liftX
liftX(x) ==
    LET pp == PP
        ySquared == addmod(mulmod(x, mulmod(x, x, pp), pp),
                           addmod(mulmod(x, AA, pp), BB, pp), pp)
        root == expMod(ySquared, (pp + 1) \div 4, pp)
    IN  IF x >= pp THEN [y |-> 0, success |-> FALSE]
        ELSE [y |-> IF root % 2 = 0 THEN root ELSE pp - root, success |-> TRUE]

\* BIP340Util.convToFakeAddr
convToFakeAddr(px) ==
    LET l == liftX(px)
    IN  IF ~l.success THEN [addr |-> ZeroAddr, success |-> FALSE]
        ELSE [addr |-> PointAddr(px, l.y), success |-> TRUE]

\* The EVM's ecrecover precompile on (hash, v, r, s): the address of
\* r^-1 (s R - hash G) for the point R with x = r and the parity v selects,
\* address(0) when the input is invalid
ecrecover(hash, v, r, s) ==
    IF v \notin {27, 28} \/ r = 0 \/ r >= NN \/ s = 0 \/ s >= NN THEN ZeroAddr
    ELSE LET y2 == addmod(mulmod(r, mulmod(r, r, PP), PP), BB, PP)
             root == modExp(y2, (PP + 1) \div 4, PP)
             y == IF (root % 2 = 0) = (v = 27) THEN root ELSE PP - root
         IN  IF mulmod(root, root, PP) # y2 THEN ZeroAddr
             ELSE LET Q == ecMul(InvN[r], ecAdd(ecMul(s, Point(r, y)),
                                                ecNeg(ecMul(hash % NN, G))))
                  IN  IF Q.inf THEN ZeroAddr ELSE PointAddr(Q.x, Q.y)

(***************************************************************************)
(* BIP340Ecrec.verify.  The challenge e = computeChallenge(rx, px, m) is   *)
(* an input: SHA-256 is an arbitrary function into 0..NN-1.  The outcome   *)
(* lists the primitives evaluated, in order.                               *)
(***************************************************************************)
VerifyOutcome(valid, steps) == [valid |-> valid, steps |-> steps]

verifyBody_AnyRecovered(px, rx, s, e) ==
    LET conv == convToFakeAddr(rx)
        sp == NN - mulmod(s, px, NN)
        ep == NN - mulmod(e, px, NN)
        recoveredAddr == ecrecover(sp, 27, px, ep)
    IN  IF ~conv.success THEN VerifyOutcome(FALSE, <<"liftX">>)
        ELSE VerifyOutcome(recoveredAddr # ZeroAddr,
                           <<"liftX", "keccak256", "computeChallenge", "ecrecover">>)

\* The part of verify that follows the range check
verifyBody(px, rx, s, e) ==
    LET conv == convToFakeAddr(rx)
        sp == NN - mulmod(s, px, NN)
        ep == NN - mulmod(e, px, NN)
        recoveredAddr == ecrecover(sp, 27, px, ep)
    IN  IF ~conv.success THEN VerifyOutcome(FALSE, <<"liftX">>)
        ELSE VerifyOutcome(recoveredAddr = conv.addr,
                           <<"liftX", "keccak256", "computeChallenge", "ecrecover">>)

verify_NoScalarCheck(px, rx, s, e) ==
    IF px >= PP \/ rx >= PP THEN VerifyOutcome(FALSE, <<>>)
    ELSE verifyBody(px, rx, s, e)

\* BIP340Ecrec.verify
verify(px, rx, s, e) ==
    IF px >= PP \/ rx >= PP \/ s >= NN THEN VerifyOutcome(FALSE, <<>>)
    ELSE verifyBody(px, rx, s, e)

(***************************************************************************)
(* HexStrings and NostrSignatures.  Strings are sequences of characters.   *)
(***************************************************************************)
HEX_LENGTH == 64    \* the 0x40 nibbles toHexString writes

_SYMBOLS == <<"0", "1", "2", "3", "4", "5", "6", "7", "8", "9",
              "a", "b", "c", "d", "e", "f">>

\* The EVM's shr: a shift by the word width or more leaves 0
shr(bits, value) == IF bits >= UintBits THEN 0 ELSE value \div (2 ^ bits)

\* The loop of toHexString: character i (from 1) is the symbol of the nibble
\* left in the low 4 bits after HEX_LENGTH - i shifts of 4 bits
HexDigits(value) ==
    [i \in 1..HEX_LENGTH |-> _SYMBOLS[(shr(4 * (HEX_LENGTH - i), value) % 16) + 1]]

toHexString_Leave(value) == [halts |-> FALSE, str |-> HexDigits(value)]

\* HexStrings.toHexString: the 64 characters are written to memory and the
\* assembly block ends in return(ptr, 0x60), the EVM's RETURN: it ends the
\* running call, not only this internal function (halts = TRUE)
toHexString(value) == [halts |-> TRUE, str |-> HexDigits(value)]

\* NostrSignatures._uintToString
RECURSIVE _uintToString(_)
_uintToString(value) ==
    IF value = 0 THEN <<"0">>
    ELSE IF value < 10 THEN <<_SYMBOLS[value + 1]>>
    ELSE Append(_uintToString(value \div 10), _SYMBOLS[(value % 10) + 1])

NOSTR_TAGS == <<"[", "]">>

\* abi.encodePacked('[', "0", ',"', hex(owner), '",', "0", ',', kind, ',',
\*                  "[]", ',"', hex(userOpHash), '"]')
nostrEventMessage(ownerHex, hashHex) ==
    <<"[">> \o _uintToString(NOSTR_CREATED_AT) \o <<",", "\"">> \o ownerHex
    \o <<"\"", ",">> \o _uintToString(NOSTR_CREATED_AT) \o <<",">>
    \o _uintToString(NOSTR_AUTH_KIND) \o <<",">> \o NOSTR_TAGS
    \o <<",", "\"">> \o hashHex \o <<"\"", "]">>

\* What the caller of a library function gets: status "return" with the
\* boolean value, "revert" with the error, or "halt" when the call was ended
\* by toHexString's RETURN with that function's memory as return data;
\* steps lists the hashing and curve primitives evaluated.
\* message is the byte string the call has given to SHA-256 (empty: none).
Returns(value, steps) ==
    [status |-> "return", value |-> value, error |-> "none", steps |-> steps,
     data |-> <<>>, message |-> <<>>]
Reverts(error, steps) ==
    [status |-> "revert", value |-> FALSE, error |-> error, steps |-> steps,
     data |-> <<>>, message |-> <<>>]
Halts(str, steps) ==
    [status |-> "halt", value |-> FALSE, error |-> "none", steps |-> steps,
     data |-> str, message |-> <<>>]

\* The common part of both forms after the input checks: the arguments of
\* abi.encodePacked are evaluated from left to right, then the message
\* (nostrEventMessage) is hashed with SHA-256 and the two halves of the
\* signature go to BIP340Ecrec.verify with the challenge e of that hash
verifyMessage(owner, rx, s, userOpHash, e) ==
    LET ownerHex == toHexString(owner)
        hashHex == toHexString(userOpHash)
        message == nostrEventMessage(ownerHex.str, hashHex.str)
        v == verify(owner, rx, s, e)
    IN  IF ownerHex.halts THEN Halts(ownerHex.str, <<>>)
        ELSE IF hashHex.halts THEN Halts(hashHex.str, <<>>)
        ELSE [Returns(v.valid, <<"sha256">> \o v.steps) EXCEPT !.message = message]

\* NostrSignatures.verifyNostrSignature, the strict form
verifyNostrSignature(owner, len, rx, s, userOpHash, e) ==
    LET r == verifyMessage(owner, rx, s, userOpHash, e)
    IN  IF len # SIGNATURE_LENGTH THEN Reverts("InvalidSignatureLength", <<>>)
        ELSE IF owner = 0 THEN Reverts("InvalidOwnerAddress", <<>>)
        ELSE IF r.status = "return" /\ ~r.value
        THEN [Reverts("SignatureVerificationFailed", r.steps) EXCEPT !.message = r.message]
        ELSE r

tryVerifyNostrSignature_NoOwnerCheck(owner, len, rx, s, userOpHash, e) ==
    IF len # SIGNATURE_LENGTH THEN Returns(FALSE, <<>>)
    ELSE verifyMessage(owner, rx, s, userOpHash, e)

\* NostrSignatures.tryVerifyNostrSignature, the tolerant form
tryVerifyNostrSignature(owner, len, rx, s, userOpHash, e) ==
    IF len # SIGNATURE_LENGTH \/ owner = 0 THEN Returns(FALSE, <<>>)
    ELSE verifyMessage(owner, rx, s, userOpHash, e)

(***************************************************************************)
(* The verification scenario: one owner key with one signature, checked    *)
(* through the test contracts BIP340EcrecTest and NostrSignaturesTest, and *)
(* the account of that key created through the factory.                    *)
(***************************************************************************)
Called(op, r) ==
    /\ lastCall' = [op |-> op, status |-> r.status, value |-> r.value,
                    error |-> r.error, steps |-> r.steps, data |-> r.data,
                    message |-> r.message]
    /\ UNCHANGED <<accounts, balances, ledger, log, inp, hook, tx>>

\* BIP340EcrecTest.verify(px, rx, s, m)
VerifyCall ==
    LET v == verify(inp.px, inp.rx, inp.s, inp.e)
    IN  Called("verify", Returns(v.valid, v.steps))

\* NostrSignaturesTest.verifyNostrSignature(owner, signature, userOpHash)
StrictCall ==
    Called("verifyNostrSignature",
           verifyNostrSignature(inp.px, inp.len, inp.rx, inp.s, inp.hash, inp.e))

\* NostrSignaturesTest.tryVerifyNostrSignature(owner, signature, userOpHash)
TolerantCall ==
    Called("tryVerifyNostrSignature",
           tryVerifyNostrSignature(inp.px, inp.len, inp.rx, inp.s, inp.hash, inp.e))

\* Helpers.SIG_VALIDATION_SUCCESS and SIG_VALIDATION_FAILED
SIG_VALIDATION_SUCCESS == 0
SIG_VALIDATION_FAILED == 1

\* The validation data for the outcome r of the strict form: its revert or
\* halt ends the call
validationData(r) ==
    IF r.status # "return" THEN r
    ELSE [r EXCEPT !.data = IF r.value THEN <<SIG_VALIDATION_SUCCESS>>
                            ELSE <<SIG_VALIDATION_FAILED>>]

\* NpubAccount._validateSignature(userOp, userOpHash) on account a
_validateSignature(a, len, rx, s, userOpHash, e) ==
    validationData(verifyNostrSignature(accounts[a].owner, len, rx, s, userOpHash, e))

\* The EntryPoint calls validateUserOp(userOp, userOpHash, 0) on the account
\* of the scenario's key, with the scenario's signature in userOp.signature
ValidateCall ==
    /\ hasCode(getAddress(inp.px, 0))
    /\ Called("_validateSignature",
              _validateSignature(getAddress(inp.px, 0), inp.len, inp.rx, inp.s,
                                 inp.hash, inp.e))

(***************************************************************************)
(* The web client's side of the two channels: the event the wallet is      *)
(* asked to sign for a user operation, and the envelope that carries the   *)
(* signed operation to the bundler relay.                                  *)
(***************************************************************************)
SIGN_EVENT_CREATED_AT == 0
SIGN_EVENT_KIND == 96024
USEROP_EVENT_KIND == 96124
SUBSCRIBED_KIND == 96124

\* Byte k (0 is the most significant of 32) of a machine word of the model
ByteAt(v, k) ==
    IF 8 * (31 - k) > UintBits THEN 0 ELSE (v \div (2 ^ (8 * (31 - k)))) % 256

\* The hex string of a 32-byte value without its 0x prefix, two lowercase
\* digits per byte (sigHash.substring(2), the wallet's pubkey)
bytesToHex(v) ==
    [i \in 1..64 |->
        IF i % 2 = 1 THEN _SYMBOLS[(ByteAt(v, (i - 1) \div 2) \div 16) + 1]
        ELSE _SYMBOLS[(ByteAt(v, (i - 1) \div 2) % 16) + 1]]

\* The event signUserOperation hands to window.nostr.signEvent
signEventTemplate(sigHash) ==
    [created_at |-> SIGN_EVENT_CREATED_AT, kind |-> SIGN_EVENT_KIND,
     tags |-> <<>>, content |-> bytesToHex(sigHash)]

\* A non-negative integer as JSON writes it
RECURSIVE jsonNumber(_)
jsonNumber(n) ==
    IF n < 10 THEN <<_SYMBOLS[n + 1]>>
    ELSE Append(jsonNumber(n \div 10), _SYMBOLS[(n % 10) + 1])

\* The identity serialization the wallet hashes and signs:
\* JSON.stringify([0, pubkey, created_at, kind, tags, content]); the events
\* of the client carry no tags
serializeEvent(pubkey, ev) ==
    <<"[", "0", ",", "\"">> \o pubkey \o <<"\"", ",">>
    \o jsonNumber(ev.created_at) \o <<",">> \o jsonNumber(ev.kind)
    \o <<",", "[", "]", ",", "\"">> \o ev.content \o <<"\"", "]">>

\* toNostrSmartAccount.signUserOperation for the scenario's key and hash
SignUserOperation ==
    LET ev == signEventTemplate(inp.hash)
    IN  Called("signUserOperation",
               [Returns(TRUE, <<"signEvent">>) EXCEPT
                    !.data = <<ev.kind>>,
                    !.message = serializeEvent(bytesToHex(inp.px), ev)])

\* nostrBundlerService.sendUserOp: the envelope is published under its kind
\* and reaches the relay's subscription when the filter names that kind
SendUserOp ==
    Called("sendUserOp",
           [Returns(USEROP_EVENT_KIND = SUBSCRIBED_KIND, <<"publish">>) EXCEPT
                !.data = <<USEROP_EVENT_KIND>>])

\* The inputs the scenario is run on: out-of-range values, x-coordinates on
\* and off the curve below and above the group order, every scalar
PxInputs == {0, GX, 7, 9, 32, PP - 1, PP, UintMax}
RxInputs == {0, 1, GX, 12, 13, 35, PP - 1, PP, UintMax}
SInputs == (0..NN) \cup {UintMax}
EInputs == {0, 1, 4, NN - 1}
LenInputs == {32, SIGNATURE_LENGTH}
HashInputs == {UintMax}

InitVerify ==
    /\ inp \in [px : PxInputs, rx : RxInputs, s : SInputs, e : EInputs,
                len : LenInputs, hash : HashInputs]
    /\ accounts = [a \in {} |-> FreshStorage(accountImplementation)]
    /\ balances = [a \in {} |-> 0]
    /\ ledger = [a \in {} |-> 0]
    /\ log = [k \in {<<inp.px, 0>>} |-> <<>>]
    /\ lastCall = NoCall
    /\ hook = NoHook
    /\ tx = NoTx

NextVerify ==
    \/ VerifyCall
    \/ StrictCall
    \/ TolerantCall
    \/ ValidateCall
    \/ (TotalCalls = 0 /\ createAccount(inp.px, 0))

SpecVerify == InitVerify /\ [][NextVerify]_vars

(***************************************************************************)
(* The channel scenario: the client signs and sends, the contract verifies,*)
(* for every owner key and every operation hash a machine word can hold.   *)
(***************************************************************************)
InitChannel ==
    /\ inp \in [px : 0..UintMax, rx : {GX}, s : {1}, e : {0},
                len : LenInputs, hash : 0..UintMax]
    /\ accounts = [a \in {} |-> FreshStorage(accountImplementation)]
    /\ balances = [a \in {} |-> 0]
    /\ ledger = [a \in {} |-> 0]
    /\ log = [k \in {<<inp.px, 0>>} |-> <<>>]
    /\ lastCall = NoCall
    /\ hook = NoHook
    /\ tx = NoTx

NextChannel ==
    \/ SignUserOperation
    \/ SendUserOp
    \/ StrictCall
    \/ TolerantCall

SpecChannel == InitChannel /\ [][NextChannel]_vars

(***************************************************************************)
(* The lifting scenario: BIP340UtilTest.liftX and BIP340EcrecTest.verify   *)
(* on every x-coordinate a machine word can hold.                          *)
(***************************************************************************)
\* BIP340UtilTest.liftX(x): returns (success, y)
LiftXCall ==
    LET l == liftX(inp.rx)
    IN  Called("liftX", [status |-> "return", value |-> l.success, error |-> "none",
                         steps |-> <<"liftX">>, data |-> <<l.y>>,
                         message |-> <<>>])

InitLift ==
    /\ inp \in [px : PxInputs, rx : 0..UintMax, s : SInputs, e : EInputs,
                len : {SIGNATURE_LENGTH}, hash : HashInputs]
    /\ accounts = [a \in {} |-> FreshStorage(accountImplementation)]
    /\ balances = [a \in {} |-> 0]
    /\ ledger = [a \in {} |-> 0]
    /\ log = [k \in {<<inp.px, 0>>} |-> <<>>]
    /\ lastCall = NoCall
    /\ hook = NoHook
    /\ tx = NoTx

NextLift ==
    \/ LiftXCall
    \/ VerifyCall

SpecLift == InitLift /\ [][NextLift]_vars

(***************************************************************************)
(* The address API: GET /api/v1/EVM/address/[npub]?chainId=...  A request  *)
(* parameter is [present, chars]: absent, or a string of characters.       *)
(***************************************************************************)
Absent == [present |-> FALSE, chars |-> <<>>]
Param(chars) == [present |-> TRUE, chars |-> chars]

\* JavaScript's !value for a string that may be null or undefined
falsy(param) == ~param.present \/ param.chars = <<>>

\* String.prototype.trim
RECURSIVE trimStart(_)
trimStart(chars) ==
    IF chars # <<>> /\ Head(chars) = " " THEN trimStart(Tail(chars)) ELSE chars

RECURSIVE trimEnd(_)
trimEnd(chars) ==
    IF chars # <<>> /\ chars[Len(chars)] = " "
    THEN trimEnd(SubSeq(chars, 1, Len(chars) - 1)) ELSE chars

trim(chars) == trimEnd(trimStart(chars))

Digits == <<"0", "1", "2", "3", "4", "5", "6", "7", "8", "9">>
IsDigit(ch) == \E d \in DOMAIN Digits : Digits[d] = ch
DigitValue(ch) == (CHOOSE d \in DOMAIN Digits : Digits[d] = ch) - 1

\* The value of the longest prefix of digits, acc being the value so far
RECURSIVE digitsPrefix(_, _)
digitsPrefix(chars, acc) ==
    IF chars = <<>> \/ ~IsDigit(Head(chars)) THEN acc
    ELSE digitsPrefix(Tail(chars), (10 * acc) + DigitValue(Head(chars)))

\* parseInt(string, 10): leading white space is skipped, a sign is read,
\* then the longest prefix of digits; NaN when there is no digit
parseInt(chars) ==
    LET t == trimStart(chars)
        negative == t # <<>> /\ Head(t) = "-"
        signed == t # <<>> /\ Head(t) \in {"-", "+"}
        body == IF signed THEN Tail(t) ELSE t
    IN  IF body = <<>> \/ ~IsDigit(Head(body)) THEN [nan |-> TRUE, n |-> 0]
        ELSE [nan |-> FALSE,
              n |-> IF negative THEN 0 - digitsPrefix(body, 0)
                    ELSE digitsPrefix(body, 0)]

\* The one npub of the scenario that nip19 decodes, and its public key
ValidNpub == <<"n", "p", "u", "b", "1", "q">>
ValidPubkey == GX

\* What a function hands back: a value, or an exception of a class with a code
Value(v) == [kind |-> "value", v |-> v, cls |-> "none", code |-> "none"]
Throws(cls, code) == [kind |-> "throw", v |-> <<>>, cls |-> cls, code |-> code]
NullValue == <<"null">>

\* nostrCore.decodeNpub: null when nip19.decode throws
decodeNpub(nPub) ==
    IF nPub = <<>> THEN NullValue
    ELSE IF nPub = ValidNpub THEN <<"pubkey", ValidPubkey>>
    ELSE NullValue

\* nostrCore.getEthAddressFromNpub; rpc is the outcome of account.getAddress()
getEthAddressFromNpub(nPub, chainId, rpc) ==
    LET decodedValue == decodeNpub(nPub)
    IN  IF decodedValue = NullValue THEN Throws("Error", "none")
        ELSE IF rpc = "fail" THEN Throws("Error", "none")
        ELSE Value(<<"address", decodedValue[2], chainId>>)

\* nostrServiceServer.getEthAddress
getEthAddress(nPub, chainId, rpc) ==
    LET r == getEthAddressFromNpub(nPub, chainId, rpc)
    IN  IF nPub = <<>> THEN Throws("NostrServiceError", "INVALID_INPUT")
        ELSE IF chainId = 0 \/ chainId <= 0
        THEN Throws("NostrServiceError", "INVALID_CHAIN_ID")
        ELSE IF r.kind = "value" THEN r
        ELSE IF r.cls = "NostrServiceError" THEN r
        ELSE Throws("NostrServiceError", "ADDRESS_RESOLUTION_FAILED")

Response(status, code, body) ==
    [op |-> "GET", status |-> status, code |-> code, body |-> body]

\* The catch block of the route
routeCatch(err) ==
    IF err.cls = "NostrServiceError"
    THEN Response(IF err.code \in {"INVALID_INPUT", "INVALID_NPUB", "INVALID_CHAIN_ID"}
                  THEN 400 ELSE 500, err.code, <<>>)
    ELSE Response(500, "none", <<>>)

\* The answer of the route to the address the service handed back
routeAnswer(r) ==
    IF r.kind = "throw" THEN routeCatch(r)
    ELSE IF r.v = NullValue THEN Response(404, "none", <<>>)
    ELSE Response(200, "none", r.v)

\* GET of the route
GET(npub, chainId, rpc) ==
    IF falsy(npub) \/ trim(npub.chars) = <<>> THEN Response(400, "none", <<>>)
    ELSE IF falsy(chainId) \/ trim(chainId.chars) = <<>> THEN Response(400, "none", <<>>)
    ELSE IF parseInt(chainId.chars).nan \/ parseInt(chainId.chars).n <= 0
    THEN Response(400, "none", <<>>)
    ELSE routeAnswer(getEthAddress(npub.chars, parseInt(chainId.chars).n, rpc))

\* One request
GetRequest ==
    /\ lastCall' = GET(inp.npub, inp.chainId, inp.rpc)
    /\ UNCHANGED <<accounts, balances, ledger, log, inp, hook, tx>>

\* The requests of the scenario: npub absent, empty, blank, undecodable,
\* valid, valid after a blank; chainId absent, empty, blank, without a digit,
\* zero, negative, positive, positive after a blank, digits followed by a
\* letter, two digits; the chain's RPC answering or failing
NpubInputs ==
    {Absent, Param(<<>>), Param(<<" ">>), Param(<<"x">>), Param(ValidNpub),
     Param(<<" ">> \o ValidNpub)}

ChainIdInputs ==
    {Absent, Param(<<>>), Param(<<" ">>), Param(<<"x">>), Param(<<"0">>),
     Param(<<"-", "1">>), Param(<<"1">>), Param(<<" ", "1">>),
     Param(<<"1", "x">>), Param(<<"3", "1">>)}

InitApi ==
    /\ inp \in [npub : NpubInputs, chainId : ChainIdInputs, rpc : {"ok", "fail"}]
    /\ accounts = [a \in {} |-> FreshStorage(accountImplementation)]
    /\ balances = [a \in {} |-> 0]
    /\ ledger = [a \in {} |-> 0]
    /\ log = [k \in {} |-> <<>>]
    /\ lastCall = NoCall
    /\ hook = NoHook
    /\ tx = NoTx

NextApi == GetRequest

SpecApi == InitApi /\ [][NextApi]_vars

NoInput == [px |-> 0, rx |-> 0, s |-> 0, e |-> 0, len |-> 0, hash |-> 0]

(***************************************************************************)
(* useNostrConnection: the restore effect of the hook                      *)
(*                                                                         *)
(* `hook` holds the store fields the hook reads (nPubkey, publicClient,    *)
(* evmAccount), its two useState values (the value last set), the          *)
(* dependency array of the last render, and the restoration attempts that  *)
(* were launched and whose .finally has not run yet, by position in the    *)
(* promise chain. `started` counts the attempts launched since nPubkey     *)
(* last changed; `step` names the last handler that ran.                   *)
(***************************************************************************)
NoMessage == "null"
FailureMessage == "Failed to restore connection"

\* transactionService.isNetworkSupported
isNetworkSupported(h) == h.publicClient /\ h.evmAccount

\* useNostrConnection: needsRestoration = isConnected && !isAAInitialized
needsRestoration(h) == h.nPubkey /\ ~isNetworkSupported(h)

\* the condition of the restore effect
shouldRestore_Always(needs, restoring) == needs

shouldRestore(needs, restoring) == needs /\ ~restoring

\* attempts whose .finally has not run
InFlight(h) == h.running + h.rejected + h.ending

\* One render of the component: the effect runs when its dependency array
\* [needsRestoration, isRestoring] differs from that of the previous render;
\* it launches reinitializeForNewNetwork, which runs up to its first await
\* (setPublicClient) before the effect returns.
Render ==
    LET needs == needsRestoration(hook)
        deps == <<needs, hook.isRestoring>>
        launch == deps # hook.deps /\ shouldRestore(needs, hook.isRestoring)
    IN  /\ launch => hook.started < MaxAttempts
        /\ hook' = IF launch
                   THEN [hook EXCEPT !.deps = deps, !.isRestoring = TRUE,
                                     !.restoreError = NoMessage,
                                     !.publicClient = TRUE,
                                     !.running = @ + 1, !.started = @ + 1,
                                     !.step = "effect"]
                   ELSE [hook EXCEPT !.deps = deps, !.step = "render"]
        /\ UNCHANGED <<accounts, balances, ledger, log, lastCall, inp, tx>>

\* connectService.initializeForCurrentNetwork from its first await on:
\* "ok" sets evmAccount and resolves, "failEarly" rejects in
\* toNostrSmartAccount (evmAccount not set), "failLate" rejects in
\* evmAccount.getAddress (evmAccount set).
AttemptOutcomes == {"ok", "failEarly", "failLate"}

AttemptSettle(outcome) ==
    /\ hook.running > 0
    /\ hook' = [hook EXCEPT !.running = @ - 1,
                            !.evmAccount = @ \/ outcome # "failEarly",
                            !.rejected = @ + (IF outcome = "ok" THEN 0 ELSE 1),
                            !.ending = @ + (IF outcome = "ok" THEN 1 ELSE 0),
                            !.step = "settle"]
    /\ UNCHANGED <<accounts, balances, ledger, log, lastCall, inp, tx>>

\* .catch(error => setRestoreError(error.message || ...))
AttemptCatch ==
    /\ hook.rejected > 0
    /\ hook' = [hook EXCEPT !.rejected = @ - 1, !.ending = @ + 1,
                            !.restoreError = FailureMessage,
                            !.step = "catch"]
    /\ UNCHANGED <<accounts, balances, ledger, log, lastCall, inp, tx>>

\* .finally(() => setIsRestoring(false))
AttemptFinally ==
    /\ hook.ending > 0
    /\ hook' = [hook EXCEPT !.ending = @ - 1, !.isRestoring = FALSE,
                            !.step = "finally"]
    /\ UNCHANGED <<accounts, balances, ledger, log, lastCall, inp, tx>>

\* clearRestoreError: () => setRestoreError(null)
clearRestoreError ==
    /\ hook' = [hook EXCEPT !.restoreError = NoMessage,
                            !.step = "clearRestoreError"]
    /\ UNCHANGED <<accounts, balances, ledger, log, lastCall, inp, tx>>

\* nostrService.connect: the extension's key goes to the store
connect ==
    /\ ~hook.nPubkey
    /\ hook' = [hook EXCEPT !.nPubkey = TRUE, !.started = 0,
                            !.step = "connect"]
    /\ UNCHANGED <<accounts, balances, ledger, log, lastCall, inp, tx>>

\* connectService.initializeForCurrentNetwork called outside the hook
\* (connectService.connect after nostrService.connect)
initializeForCurrentNetwork(ok) ==
    /\ hook.nPubkey
    /\ hook' = [hook EXCEPT !.publicClient = TRUE,
                            !.evmAccount = @ \/ ok,
                            !.step = "initialize"]
    /\ UNCHANGED <<accounts, balances, ledger, log, lastCall, inp, tx>>

InitHook ==
    /\ hook \in [nPubkey : BOOLEAN, publicClient : BOOLEAN,
                 evmAccount : BOOLEAN, isRestoring : {FALSE},
                 restoreError : {NoMessage}, deps : {<<>>},
                 running : {0}, rejected : {0}, ending : {0},
                 started : {0}, step : {"mount"}]
    /\ tx = NoTx
    /\ accounts = [a \in {} |-> FreshStorage(accountImplementation)]
    /\ balances = [a \in {} |-> 0]
    /\ ledger = [a \in {} |-> 0]
    /\ log = [k \in {} |-> <<>>]
    /\ lastCall = NoCall
    /\ inp = NoInput

NextHook ==
    \/ Render
    \/ \E outcome \in AttemptOutcomes : AttemptSettle(outcome)
    \/ AttemptCatch
    \/ AttemptFinally
    \/ clearRestoreError
    \/ connect
    \/ \E ok \in BOOLEAN : initializeForCurrentNetwork(ok)

SpecHook == InitHook /\ [][NextHook]_vars

(***************************************************************************)
(* transactionService.sendTransaction / sendERC20Transfer                  *)
(*                                                                         *)
(* `tx` holds the position of the current call, the watchers registered    *)
(* with publicClient.watchContractEvent (by call number), the state of     *)
(* txIdPromise ("none" until the watcher of the call is registered), the   *)
(* user operations handed to the relays, and the UserOperationEvent logs   *)
(* of the sender emitted so far (a log's transaction hash is its number).  *)
(***************************************************************************)
SendFunctions == {"sendTransaction", "sendERC20Transfer"}

Settled(t) == t.pc \in {"idle", "resolved", "rejected"}

\* entry of the function up to prepareUserOperation: without publicClient
\* or evmAccount in the store it throws before anything else
Send(fn, initialized) ==
    /\ Settled(tx)
    /\ tx.call < MaxSends
    /\ tx' = [tx EXCEPT !.fn = fn, !.call = @ + 1, !.signature = FALSE,
                        !.promise = "none", !.hash = 0, !.result = 0,
                        !.regAt = 0,
                        !.pc = IF initialized THEN "prepared" ELSE "rejected"]
    /\ UNCHANGED <<accounts, balances, ledger, log, lastCall, inp, hook>>

\* const signature = await evmAccount.signUserOperation(userOp);
\* userOp.signature = signature
Sign(ok) ==
    /\ tx.pc = "prepared"
    /\ tx' = [tx EXCEPT !.signature = ok,
                        !.pc = IF ok THEN "signed" ELSE "rejected"]
    /\ UNCHANGED <<accounts, balances, ledger, log, lastCall, inp, hook>>

\* new Promise(... publicClient.watchContractEvent(...) ...)
Watch ==
    /\ tx.pc = "signed"
    /\ tx' = [tx EXCEPT !.watchers = @ \cup {tx.call}, !.regAt = tx.events,
                        !.promise = "pending", !.pc = "watching"]
    /\ UNCHANGED <<accounts, balances, ledger, log, lastCall, inp, hook>>

\* await nostrBundlerService.sendUserOp(userOp); a rejection goes to the
\* catch block of the function
Publish_Early(ok) ==
    /\ tx.pc \in {"signed", "watching"}
    /\ tx' = [tx EXCEPT !.relays = @ \cup {[op |-> tx.call,
                                             signature |-> tx.signature,
                                             watched |-> tx.promise # "none"]},
                        !.pc = IF ok THEN "awaiting" ELSE "rejected"]
    /\ UNCHANGED <<accounts, balances, ledger, log, lastCall, inp, hook>>

Publish(ok) ==
    /\ tx.pc = "watching"
    /\ tx' = [tx EXCEPT !.relays = @ \cup {[op |-> tx.call,
                                             signature |-> tx.signature,
                                             watched |-> tx.promise # "none"]},
                        !.pc = IF ok THEN "awaiting" ELSE "rejected"]
    /\ UNCHANGED <<accounts, balances, ledger, log, lastCall, inp, hook>>

\* a UserOperationEvent of the sender is emitted; onLogs of every
\* registered watcher: resolve(logs[0].transactionHash); unsubscribe()
Emit ==
    /\ tx.events < MaxEvents
    /\ tx.watchers # {}
    /\ LET live == tx.call \in tx.watchers /\ tx.promise = "pending"
       IN  tx' = [tx EXCEPT !.events = @ + 1, !.watchers = {},
                            !.promise = IF live THEN "fulfilled" ELSE @,
                            !.hash = IF live THEN tx.events + 1 ELSE @]
    /\ UNCHANGED <<accounts, balances, ledger, log, lastCall, inp, hook>>

\* an event emitted while no watcher is registered
EmitUnwatched ==
    /\ tx.events < MaxEvents
    /\ tx.watchers = {}
    /\ tx' = [tx EXCEPT !.events = @ + 1]
    /\ UNCHANGED <<accounts, balances, ledger, log, lastCall, inp, hook>>

\* onError: err => reject(err)
WatcherError ==
    /\ tx.call \in tx.watchers
    /\ tx.promise = "pending"
    /\ tx' = [tx EXCEPT !.promise = "rejected"]
    /\ UNCHANGED <<accounts, balances, ledger, log, lastCall, inp, hook>>

\* return await txIdPromise
Await ==
    /\ tx.pc = "awaiting"
    /\ tx.promise \in {"fulfilled", "rejected"}
    /\ tx' = [tx EXCEPT !.pc = IF tx.promise = "fulfilled" THEN "resolved"
                                ELSE "rejected",
                        !.result = IF tx.promise = "fulfilled" THEN tx.hash
                                   ELSE 0]
    /\ UNCHANGED <<accounts, balances, ledger, log, lastCall, inp, hook>>

InitTx ==
    /\ tx = NoTx
    /\ hook = NoHook
    /\ accounts = [a \in {} |-> FreshStorage(accountImplementation)]
    /\ balances = [a \in {} |-> 0]
    /\ ledger = [a \in {} |-> 0]
    /\ log = [k \in {} |-> <<>>]
    /\ lastCall = NoCall
    /\ inp = NoInput

NextTx ==
    \/ \E fn \in SendFunctions, initialized \in BOOLEAN : Send(fn, initialized)
    \/ \E ok \in BOOLEAN : Sign(ok)
    \/ Watch
    \/ \E ok \in BOOLEAN : Publish(ok)
    \/ Emit
    \/ EmitUnwatched
    \/ WatcherError
    \/ Await

SpecTx == InitTx /\ [][NextTx]_vars

(***************************************************************************)
(* The chain: factory and accounts                                         *)
(***************************************************************************)
Init ==
    /\ accounts = [a \in {} |-> FreshStorage(accountImplementation)]
    /\ balances = [a \in {} |-> 0]
    /\ ledger = [a \in {} |-> 0]
    /\ log = [k \in Keys |-> <<>>]
    /\ lastCall = NoCall
    /\ hook = NoHook
    /\ tx = NoTx
    /\ inp = NoInput

Next ==
    \/ \E k \in Keys : createAccount(k[1], k[2])
    \/ \E k \in Keys : GetAddress(k[1], k[2])
    \/ \E a \in DOMAIN accounts, c \in Calls : DirectCall(EOA, a, c)
    \/ \E a \in DOMAIN accounts, x \in ExecuteCalls : ExecuteCall(x[1], a, x[2])
    \/ \E o \in {0, GX} : InitializeImplementation(accountImplementation, o)

Spec == Init /\ [][Next]_vars

(***************************************************************************)
(* Vocabulary of the properties                                            *)
(***************************************************************************)
IsCreate(e) == e.op = "createAccount"
IsGet(e) == e.op = "getAddress"

\* The createAccount calls made for key k, in order
Creates(k) == SelectSeq(log[k], IsCreate)

\* The registry's view of key k: Present when the address the factory
\* derives for it holds code
Present(k) == hasCode(getAddress(k[1], k[2]))

\* The first two createAccount(k) calls report isNew = true, then false, and
\* return one identifier
TrueThenFalse(k) ==
    LET c == Creates(k)
    IN  /\ Len(c) >= 1 => c[1].status = "ok" /\ c[1].isNew
        /\ Len(c) >= 2 => c[2].status = "ok" /\ ~c[2].isNew /\ c[2].ret = c[1].ret

\* Of the createAccount(k) calls made, exactly one reports isNew = true, the
\* others report false, and all return one identifier
ExactlyOneNew(k) ==
    LET c == Creates(k)
        I == 1..Len(c)
    IN  Len(c) >= 1 =>
          /\ \A i \in I : c[i].status = "ok"
          /\ Cardinality({i \in I : c[i].isNew}) = 1
          /\ \A i, j \in I : c[i].ret = c[j].ret

\* C1 (as stated): for every (owner, salt), two createAccount calls in a row
\* report isNew = true then isNew = false and return the same identifier.
C1_Original == \A k \in Keys : TrueThenFalse(k)

\* C1 (amended): for every (owner, salt) with owner # 0, the first
\* createAccount call reports isNew = true, the second isNew = false, and
\* both return the same identifier.
C1_TwiceInARow == \A k \in Keys : k[1] # 0 => TrueThenFalse(k)

C1_Witness ==
    \E k \in Keys :
        /\ k[1] # 0
        /\ Len(Creates(k)) >= 2
        /\ Creates(k)[1].isNew
        /\ ~Creates(k)[2].isNew

\* C2 (as stated): of N >= 1 createAccount calls for one key, in whatever
\* order the chain executes them, exactly one reports isNew = true, N-1
\* report isNew = false and all N return the same identifier.
C2_Original == \A k \in Keys : ExactlyOneNew(k)

\* C2 (amended): the same for every key with owner # 0.
C2_ExactlyOneNew == \A k \in Keys : k[1] # 0 => ExactlyOneNew(k)

C2_Witness ==
    \E k \in Keys :
        /\ k[1] # 0
        /\ Len(Creates(k)) = MaxCalls
        /\ Cardinality({i \in 1..MaxCalls : ~Creates(k)[i].isNew}) = MaxCalls - 1

\* C3: the identifier getAddress(owner, salt) returns while the key is Absent
\* is the identifier a later successful createAccount(owner, salt) returns,
\* and the account is materialized at it.
C3_PredictionRoundTrip ==
    \A k \in Keys : \A i, j \in 1..Len(log[k]) :
        (i < j /\ IsGet(log[k][i]) /\ log[k][i].absent
               /\ IsCreate(log[k][j]) /\ log[k][j].status = "ok")
        => /\ log[k][j].ret = log[k][i].ret
           /\ hasCode(log[k][i].ret)

C3_Witness ==
    \E k \in Keys :
        /\ Len(log[k]) >= 2
        /\ IsGet(log[k][1]) /\ log[k][1].absent
        /\ IsCreate(log[k][2]) /\ log[k][2].isNew

\* Every getAddress(k) call made so far returned one identifier
SameIdentifier ==
    \A k \in Keys : \A i, j \in 1..Len(log[k]) :
        (IsGet(log[k][i]) /\ IsGet(log[k][j])) => log[k][i].ret = log[k][j].ret

\* A step that is a getAddress call leaves accounts and deposits alone
GetAddressFrame ==
    (\E k \in Keys : Len(log'[k]) = Len(log[k]) + 1 /\ IsGet(log'[k][Len(log'[k])]))
    => UNCHANGED <<accounts, balances>>

\* C4: getAddress changes no state and returns the same identifier in every
\* reachable state, whether the key is Absent or Present and whatever ran
\* in between.
C4_GetAddressPure == []SameIdentifier /\ [][GetAddressFrame]_vars

C4_Witness ==
    \E k \in Keys : \E i, j \in 1..Len(log[k]) :
        /\ i < j
        /\ IsGet(log[k][i]) /\ log[k][i].absent
        /\ IsGet(log[k][j]) /\ ~log[k][j].absent
        /\ accounts[log[k][j].ret].impl # accountImplementation

\* At most one createAccount(k) call reported isNew = true
AtMostOnce ==
    \A k \in Keys :
        Cardinality({i \in 1..Len(log[k]) : IsCreate(log[k][i]) /\ log[k][i].isNew}) <= 1

\* A key that is Present stays Present, at the same identifier
StaysPresent ==
    \A k \in Keys :
        Present(k) => /\ Present(k)'
                      /\ getAddress(k[1], k[2])' = getAddress(k[1], k[2])

\* C5: per key the only transition is Absent -> Present, it happens at most
\* once, and a Present key stays Present with the same identifier after any
\* createAccount, getAddress, deposit, withdraw, execute and upgrade.
C5_Lifecycle == []AtMostOnce /\ [][StaysPresent]_vars

C5_Witness ==
    \E k \in Keys :
        /\ Present(k)
        /\ accounts[getAddress(k[1], k[2])].impl # accountImplementation
        /\ balances[getAddress(k[1], k[2])] > 0
        /\ Len(Creates(k)) >= 2

\* A step that is a failed createAccount(k): it is reported as
\* AccountCreationFailed, returns nothing, and changes neither the accounts,
\* the deposits nor any other key's record; the key is still Absent
FailedCreateFrame ==
    \A k \in Keys :
        (/\ Len(log'[k]) = Len(log[k]) + 1
         /\ IsCreate(log'[k][Len(log'[k])])
         /\ log'[k][Len(log'[k])].status # "ok")
        => /\ log'[k][Len(log'[k])].status = "AccountCreationFailed"
           /\ log'[k][Len(log'[k])].ret = ZeroAddr
           /\ ~log'[k][Len(log'[k])].isNew
           /\ UNCHANGED <<accounts, balances>>
           /\ ~Present(k)'
           /\ \A k2 \in Keys \ {k} : log'[k2] = log[k2]

\* createAccount with owner = 0 always fails, and no account is created
ZeroOwnerFails ==
    \A k \in Keys : k[1] = 0 =>
        /\ ~Present(k)
        /\ \A i \in 1..Len(log[k]) :
              IsCreate(log[k][i]) => log[k][i].status = "AccountCreationFailed"

\* C6: a createAccount whose materialization fails (owner = 0) fails with
\* AccountCreationFailed, leaves the key Absent, emits no AccountCreated and
\* changes no other key's state.
C6_CreationFailed == []ZeroOwnerFails /\ [][FailedCreateFrame]_vars

C6_Witness ==
    \E k, k2 \in Keys :
        /\ k[1] = 0
        /\ Len(Creates(k)) >= 1
        /\ Creates(k)[Len(Creates(k))].status = "AccountCreationFailed"
        /\ Present(k2)

\* C7: every account createAccount(owner, salt) materialized or returned
\* reports owner() = owner, and keys with different owners have different
\* accounts.
C7_OwnerBinding ==
    /\ \A k \in Keys : \A i \in 1..Len(log[k]) :
          (IsCreate(log[k][i]) /\ log[k][i].status = "ok")
          => /\ hasCode(log[k][i].ret)
             /\ accounts[log[k][i].ret].owner = k[1]
    /\ \A k1, k2 \in Keys : \A i \in 1..Len(log[k1]) : \A j \in 1..Len(log[k2]) :
          (/\ k1[1] # k2[1]
           /\ IsCreate(log[k1][i]) /\ log[k1][i].status = "ok"
           /\ IsCreate(log[k2][j]) /\ log[k2][j].status = "ok")
          => log[k1][i].ret # log[k2][j].ret

C7_Witness ==
    /\ \A k \in Keys : k[1] # 0 => (Len(Creates(k)) = 1 /\ Creates(k)[1].isNew)
    /\ \E a \in DOMAIN accounts : accounts[a].owner = PP - 1
    /\ \E a \in DOMAIN accounts : a.salt = UintMax /\ accounts[a].owner = GX

\* No step changes the owner of a deployed account or removes the account
OwnerStable ==
    \A a \in DOMAIN accounts :
        /\ a \in DOMAIN accounts'
        /\ accounts'[a].owner = accounts[a].owner

\* initialize on a deployed account, or on the implementation, is rejected
InitializeRejected ==
    lastCall.op \in {"initialize", "initializeImplementation"}
    => lastCall.status = "InvalidInitialization"

\* C8: once initialized with owner o an account's owner is o in every later
\* state: a second initialize is rejected, no operation writes owner, and an
\* upgrade changes neither the owner nor the account's identifier.
C8_OwnerImmutable == []InitializeRejected /\ [][OwnerStable]_vars

C8_Witness ==
    /\ lastCall.op = "initialize"
    /\ lastCall.status = "InvalidInitialization"
    /\ \E a \in DOMAIN accounts :
          accounts[a].impl # accountImplementation /\ accounts[a].owner = PP - 1

(***************************************************************************)
(* Properties of the verification scenario (SpecVerify)                    *)
(***************************************************************************)
\* With owner = 0 the tolerant form and BIP340 verify return false, and no
\* account with owner 0 is deployed
ZeroOwnerNeverAccepted ==
    /\ (inp.px = 0 /\ lastCall.op = "tryVerifyNostrSignature")
       => (lastCall.status = "return" /\ ~lastCall.value)
    /\ (inp.px = 0 /\ lastCall.op = "verify")
       => (lastCall.status = "return" /\ ~lastCall.value)
    /\ \A a \in DOMAIN accounts : accounts[a].owner # 0
    /\ \A k \in DOMAIN log : \A i \in 1..Len(log[k]) :
          (k[1] = 0 /\ IsCreate(log[k][i])) => log[k][i].status = "AccountCreationFailed"

\* C9 (as stated): for owner = 0 the strict form raises the invalid-owner
\* error, the tolerant form returns false, BIP340 verify(0, rx, s, m) returns
\* false, and no account with owner = 0 becomes Present.
C9_Original ==
    /\ ZeroOwnerNeverAccepted
    /\ (inp.px = 0 /\ lastCall.op = "verifyNostrSignature")
       => (lastCall.status = "revert" /\ lastCall.error = "InvalidOwnerAddress")

\* C9 (amended): for owner = 0 the strict form raises an error - the
\* invalid-owner error when the signature is 64 bytes long, the
\* invalid-length error otherwise -, the tolerant form returns false, BIP340
\* verify(0, rx, s, m) returns false, and no account with owner = 0 becomes
\* Present.
C9_ZeroOwnerRejected ==
    /\ ZeroOwnerNeverAccepted
    /\ (inp.px = 0 /\ lastCall.op = "verifyNostrSignature")
       => /\ lastCall.status = "revert"
          /\ lastCall.error = IF inp.len = SIGNATURE_LENGTH
                              THEN "InvalidOwnerAddress"
                              ELSE "InvalidSignatureLength"

C9_Witness ==
    /\ inp.px = 0
    /\ inp.len = SIGNATURE_LENGTH
    /\ inp.rx < PP /\ inp.s < NN
    /\ lastCall.op = "verifyNostrSignature"
    /\ lastCall.error = "InvalidOwnerAddress"
    /\ Len(log[<<0, 0>>]) = 1

\* C10: verify(px, rx, s, m) returns false whenever px >= p, rx >= p or
\* s >= n, and returns before the challenge hash, a point lifting or the
\* signature recovery is evaluated.
C10_RangeCheckFirst ==
    (lastCall.op = "verify" /\ (inp.px >= PP \/ inp.rx >= PP \/ inp.s >= NN))
    => /\ lastCall.status = "return"
       /\ ~lastCall.value
       /\ lastCall.steps = <<>>

C10_Witness ==
    /\ lastCall.op = "verify"
    /\ inp.px < PP /\ inp.rx < PP /\ inp.s = NN
    /\ ~lastCall.value
    /\ lastCall.steps = <<>>

(***************************************************************************)
(* The direct form of BIP340 verification, the reference the recovery-     *)
(* based verify is compared with.                                          *)
(***************************************************************************)
\* R' = s*G - e*P for P the even-y point with x = px (none when px is not
\* the x-coordinate of a curve point)
DirectR(px, s, e) ==
    ecAdd(ecMul(s, G), ecNeg(ecMul(e, Point(px, liftX(px).y))))

\* Accept iff P exists, R' is not the point at infinity, R'.x = rx and
\* R'.y is even
DirectAccepts(px, rx, s, e) ==
    /\ liftX(px).success
    /\ OnCurve(px, liftX(px).y)
    /\ ~DirectR(px, s, e).inf
    /\ DirectR(px, s, e).x = rx
    /\ DirectR(px, s, e).y % 2 = 0

\* C11 (as stated): for px < p, rx < p and s < n the recovery-based verify
\* returns true exactly when the direct form accepts, over the whole range
\* of px and also when e*px or s*px is 0 mod n.
C11_Original ==
    (lastCall.op = "verify" /\ inp.px < PP /\ inp.rx < PP /\ inp.s < NN)
    => (lastCall.value <=> DirectAccepts(inp.px, inp.rx, inp.s, inp.e))

\* What the recovery-based verify does guarantee: it accepts only what the
\* direct form accepts, and it agrees with the direct form when px < n and
\* e*px is not 0 mod n (the range of ecrecover's r and s arguments).
RecoverySound ==
    (lastCall.op = "verify" /\ lastCall.value)
    => DirectAccepts(inp.px, inp.rx, inp.s, inp.e)

RecoveryAgreesInRange ==
    (lastCall.op = "verify" /\ inp.px < NN /\ inp.rx < PP /\ inp.s < NN
        /\ mulmod(inp.e, inp.px, NN) # 0)
    => (lastCall.value <=> DirectAccepts(inp.px, inp.rx, inp.s, inp.e))

(***************************************************************************)
(* The two forms of NostrSignatures on the inputs of the scenario          *)
(***************************************************************************)
StrictOutcome ==
    verifyNostrSignature(inp.px, inp.len, inp.rx, inp.s, inp.hash, inp.e)

TolerantOutcome ==
    tryVerifyNostrSignature(inp.px, inp.len, inp.rx, inp.s, inp.hash, inp.e)

IsStrict == lastCall.op = "verifyNostrSignature"
IsTolerant == lastCall.op = "tryVerifyNostrSignature"
IsLibraryCall == IsStrict \/ IsTolerant

ReturnedTrue(r) == r.status = "return" /\ r.value
ReturnedFalse(r) == r.status = "return" /\ ~r.value

\* C12: the strict and the tolerant form agree on every (owner, signature,
\* userOpHash): the tolerant form never raises, it returns true exactly when
\* the strict form returns true without raising, and whenever the strict
\* form raises an error the tolerant form returns false.
C12_FormsAgree ==
    /\ IsTolerant => /\ lastCall.status # "revert"
                     /\ ReturnedTrue(lastCall) <=> ReturnedTrue(StrictOutcome)
    /\ (IsStrict /\ lastCall.status = "revert") => ReturnedFalse(TolerantOutcome)
    /\ (IsStrict /\ ReturnedTrue(lastCall)) => ReturnedTrue(TolerantOutcome)

C12_Witness ==
    /\ IsStrict
    /\ inp.len = SIGNATURE_LENGTH
    /\ lastCall.status = "revert"
    /\ ReturnedFalse(TolerantOutcome)

\* The input checks of a library call, and those of BIP340 verify
FailsRangeCheck == inp.px >= PP \/ inp.rx >= PP \/ inp.s >= NN
FailsInputCheck == inp.len # SIGNATURE_LENGTH \/ inp.px = 0 \/ FailsRangeCheck

\* C13: in every verification call the input checks (signature length,
\* owner = 0, px >= p, rx >= p, s >= n) come before any hashing and any curve
\* arithmetic: a call whose input fails one of them has evaluated no hash and
\* no curve operation and has no effect (no state change, no success).
ValidationFirst ==
    /\ (IsLibraryCall /\ FailsInputCheck)
       => (lastCall.steps = <<>> /\ ~ReturnedTrue(lastCall))
    /\ (lastCall.op = "verify" /\ FailsRangeCheck)
       => (lastCall.steps = <<>> /\ ReturnedFalse(lastCall))

\* A verification call changes neither accounts nor deposits nor the registry
VerificationFrame ==
    (lastCall' # lastCall) => UNCHANGED <<accounts, balances, log>>

IsLiftX == lastCall.op = "liftX"
LiftedY == lastCall.data[1]

\* x^3 + 7 mod p
CurveRhs(x) == addmod(mulmod(x, mulmod(x, x, PP), PP), BB, PP)

IsResidue(a) == \E r \in 0..(PP - 1) : mulmod(r, r, PP) = a

\* C14 (as stated): for every x in [0, p) liftX is deterministic; whenever it
\* reports ok the returned y is even and y*y = x^3 + 7 (mod p); an x for which
\* x^3 + 7 is not a quadratic residue is reported as a failure with y = 0.
C14_Original ==
    (IsLiftX /\ inp.rx < PP)
    => /\ lastCall.value = liftX(inp.rx).success /\ LiftedY = liftX(inp.rx).y
       /\ lastCall.value => (LiftedY % 2 = 0 /\ mulmod(LiftedY, LiftedY, PP) = CurveRhs(inp.rx))
       /\ ~IsResidue(CurveRhs(inp.rx)) => (~lastCall.value /\ LiftedY = 0)

\* What liftX returns for x < p: always ok, with the even one of the two
\* candidates +-(x^3 + 7)^((p+1)/4), whose square is x^3 + 7 when that is a
\* quadratic residue and -(x^3 + 7) when it is not.
LiftXActual ==
    (IsLiftX /\ inp.rx < PP)
    => /\ lastCall.value
       /\ LiftedY % 2 = 0
       /\ mulmod(LiftedY, LiftedY, PP) =
             IF IsResidue(CurveRhs(inp.rx)) THEN CurveRhs(inp.rx)
             ELSE (PP - CurveRhs(inp.rx)) % PP

NoCurvePoint(x) == x >= PP \/ ~IsResidue(CurveRhs(x))

\* C18: verify(px, rx, s, m) returns false whenever rx is not the
\* x-coordinate of a curve point, for every px, s and m.
C18_OffCurveRejected ==
    (lastCall.op = "verify" /\ NoCurvePoint(inp.rx)) => ReturnedFalse(lastCall)

C18_Witness ==
    /\ lastCall.op = "verify"
    /\ inp.rx < PP /\ ~IsResidue(CurveRhs(inp.rx))
    /\ inp.px = GX /\ inp.s < NN /\ inp.s > 0 /\ inp.e = 1
    /\ lastCall.steps = <<"liftX", "keccak256", "computeChallenge", "ecrecover">>
    /\ ReturnedFalse(lastCall)

(***************************************************************************)
(* The canonical message of the specification                              *)
(***************************************************************************)
HexDigit(d) ==
    <<"0", "1", "2", "3", "4", "5", "6", "7", "8", "9", "a", "b", "c", "d", "e", "f">>[d + 1]

\* v as 64 lowercase hexadecimal digits, zero-padded: digit i (from 1) has
\* weight 16^(64 - i); a machine word of the model has no digit above the
\* second lowest that is not 0
Hex64(v) ==
    [i \in 1..64 |-> IF i = 64 THEN HexDigit(v % 16)
                     ELSE IF i = 63 THEN HexDigit((v \div 16) % 16)
                     ELSE "0"]

\* [0,"H(owner)",0,96024,[],"H(digest)"]
CanonicalMessage(owner, digest) ==
    <<"[", "0", ",", "\"">> \o Hex64(owner)
    \o <<"\"", ",", "0", ",", "9", "6", "0", "2", "4", ",", "[", "]", ",", "\"">>
    \o Hex64(digest) \o <<"\"", "]">>

PassesLibraryChecks == inp.len = SIGNATURE_LENGTH /\ inp.px # 0

\* C15 (as stated): for every owner and every digest the message that is
\* authenticated is exactly the 148 characters
\* [0,"H(owner)",0,96024,[],"H(digest)"], H(v) being v as 64 lowercase
\* hexadecimal digits, zero-padded, without 0x prefix.
C15_Original ==
    (IsLibraryCall /\ PassesLibraryChecks)
    => /\ lastCall.message = CanonicalMessage(inp.px, inp.hash)
       /\ Len(lastCall.message) = 148

\* The signature of the scenario verifies for the owner: it has 64 bytes and
\* BIP340 verify accepts it for the challenge of the canonical message
SignatureVerifies ==
    inp.len = SIGNATURE_LENGTH /\ verify(inp.px, inp.rx, inp.s, inp.e).valid

\* C16 (as stated): _validateSignature returns SIG_VALIDATION_SUCCESS when
\* the Nostr signature over userOpHash verifies for the stored owner, and
\* returns SIG_VALIDATION_FAILED, without reverting, when it does not.
C16_Original ==
    lastCall.op = "_validateSignature"
    => /\ lastCall.status = "return"
       /\ lastCall.data = IF SignatureVerifies THEN <<SIG_VALIDATION_SUCCESS>>
                          ELSE <<SIG_VALIDATION_FAILED>>

\* The first check of the strict form that the scenario's input fails, in the
\* order length, owner, field elements, scalar, arithmetic
FailedCheck ==
    IF inp.len # SIGNATURE_LENGTH THEN "length"
    ELSE IF inp.px = 0 THEN "owner"
    ELSE IF inp.px >= PP \/ inp.rx >= PP THEN "field"
    ELSE IF inp.s >= NN THEN "scalar"
    ELSE IF ~verify(inp.px, inp.rx, inp.s, inp.e).valid THEN "mismatch"
    ELSE "none"

\* The check that each typed error of the library names
CheckNamedBy(error) ==
    CASE error = "InvalidSignatureLength" -> "length"
      [] error = "InvalidOwnerAddress" -> "owner"
      [] error = "SignatureVerificationFailed" -> "mismatch"
      [] OTHER -> "none"

\* C19 (as stated): the strict form identifies the failed check by its error:
\* a wrong signature length, owner = 0, a field element out of range, a scalar
\* out of range and an arithmetic mismatch each raise their own typed error,
\* and the error raised is that of the first check that fails.
C19_Original ==
    (IsStrict /\ FailedCheck # "none")
    => /\ lastCall.status = "revert"
       /\ CheckNamedBy(lastCall.error) = FailedCheck

\* What the strict form does raise: the length error, then the owner error,
\* and nothing else
StrictErrorsActual ==
    IsStrict
    => /\ (FailedCheck = "length"
            => lastCall.status = "revert" /\ lastCall.error = "InvalidSignatureLength")
       /\ (FailedCheck = "owner"
            => lastCall.status = "revert" /\ lastCall.error = "InvalidOwnerAddress")
       /\ (FailedCheck \notin {"length", "owner"}
            => lastCall.status = "halt" /\ lastCall.error = "none")

(***************************************************************************)
(* Properties of the caller gates (Spec)                                   *)
(***************************************************************************)
\* The addresses a call can come from
Callers(a) == {EOA, Factory, Recipient, EntryPoint, a}

GatedCalls == {c \in Calls : c.fn \in {"withdrawDepositTo", "upgradeToAndCall"}}

Rejected(r, a, error) ==
    r.status = error /\ r.st = accounts[a] /\ r.bal = balances

GateError(c) ==
    IF c.fn = "upgradeToAndCall" /\ c.to = ZeroAddr THEN "InvalidEntryPoint"
    ELSE "UnauthorizedCaller"

GateOutcomes ==
    \A a \in DOMAIN accounts :
        /\ \A sender \in Callers(a) \ {a} : \A c \in GatedCalls :
               Rejected(Dispatch(sender, a, c), a, GateError(c))
        /\ \A sender \in Callers(a) \ {EntryPoint, a} : \A c \in Calls :
               Rejected(execute(sender, a, c), a, "UnauthorizedCaller")

\* A step that lowers a deposit or changes an implementation is a successful
\* execute, and a rejected call changes nothing
GatedStep ==
    /\ \A a \in DOMAIN accounts :
           (balances'[a] < balances[a] \/ accounts'[a].impl # accounts[a].impl)
           => lastCall' = [op |-> "execute", status |-> "ok"]
    /\ lastCall'.status \in {"UnauthorizedCaller", "InvalidEntryPoint"}
       => \A a \in DOMAIN accounts :
              accounts'[a] = accounts[a] /\ balances'[a] = balances[a]

WithdrawCalls == {c \in Calls : c.fn = "withdrawDepositTo"}

\* What the body of withdrawDepositTo answers to recipient c.to and amount
\* c.n for account a, whoever the caller
WithdrawAnswer(a, c) ==
    IF c.to = ZeroAddr THEN "InvalidWithdrawAddress"
    ELSE IF c.n > getDeposit(a) THEN "InsufficientDeposit"
    ELSE "ok"

\* C21 (as stated): withdrawDepositTo called by an external account is
\* rejected with InvalidWithdrawAddress when the recipient is the zero
\* address and with InsufficientDeposit when the amount exceeds the deposit,
\* and is processed when the recipient is non-zero and the amount is within
\* the deposit; a rejected call leaves the deposit unchanged.
C21_Original ==
    \A a \in DOMAIN accounts : \A c \in WithdrawCalls :
        LET r == Dispatch(EOA, a, c)
        IN  /\ r.status = WithdrawAnswer(a, c)
            /\ r.status # "ok" => r.bal = balances
            /\ r.status = "ok" => r.bal[a] = balances[a] - c.n

\* What the external account gets: UnauthorizedCaller for every recipient and
\* every amount, and the answers above only through execute
WithdrawActual ==
    \A a \in DOMAIN accounts : \A c \in WithdrawCalls :
        /\ Rejected(Dispatch(EOA, a, c), a, "UnauthorizedCaller")
        /\ execute(EntryPoint, a, c).status = WithdrawAnswer(a, c)

\* getDeposit() is the value deposited minus the amount withdrawn
DepositLedger ==
    \A a \in DOMAIN accounts : getDeposit(a) = ledger[a]

\* addDeposit with value v credits exactly v to the account and to nothing
\* else, and with value 0 it is rejected and changes nothing
DepositExact ==
    \A a \in DOMAIN accounts : \A v \in 0..(MaxDeposit + 1) :
        LET r == addDeposit(a, v)
        IN  IF v = 0 THEN Rejected(r, a, "ZeroDepositAmount")
            ELSE /\ r.status = "ok"
                 /\ r.st = accounts[a]
                 /\ r.bal = [balances EXCEPT ![a] = @ + v]

SignedSerialization ==
    serializeEvent(bytesToHex(inp.px), signEventTemplate(inp.hash))

\* C24 (as stated): producer and consumer agree on the event kind of each
\* channel and the two kinds stay distinct: the client asks the wallet to
\* sign an event with created_at 0, kind 96024, no tags and the 64-hex
\* operation hash as content, whose identity serialization
\* [0,pubkey,0,96024,[],content] is byte-identical to the message the
\* contract hashes and verifies; the transport envelope is published and
\* subscribed under kind 96124 only.
C24_Original ==
    /\ lastCall.op = "signUserOperation"
       => /\ lastCall.data = <<96024>>
          /\ lastCall.message = CanonicalMessage(inp.px, inp.hash)
    /\ (IsLibraryCall /\ PassesLibraryChecks)
       => lastCall.message = SignedSerialization
    /\ lastCall.op = "sendUserOp"
       => lastCall.data = <<96124>> /\ lastCall.value
    /\ USEROP_EVENT_KIND # SIGN_EVENT_KIND /\ USEROP_EVENT_KIND # NOSTR_AUTH_KIND

\* The parts of C24 that do not need the contract to reach its hash: the
\* client's serialization is the canonical message and is the string the
\* contract's pieces spell, and the transport kind is one, subscribed kind
ChannelKindsActual ==
    /\ lastCall.op = "signUserOperation"
       => /\ lastCall.data = <<96024>>
          /\ lastCall.message = CanonicalMessage(inp.px, inp.hash)
    /\ SignedSerialization = nostrEventMessage(HexDigits(inp.px), HexDigits(inp.hash))
    /\ (IsLibraryCall /\ PassesLibraryChecks) => lastCall.message = <<>>
    /\ lastCall.op = "sendUserOp"
       => lastCall.data = <<96124>> /\ lastCall.value
    /\ USEROP_EVENT_KIND # SIGN_EVENT_KIND /\ USEROP_EVENT_KIND # NOSTR_AUTH_KIND

(***************************************************************************)
(* Properties of the address API (SpecApi)                                 *)
(***************************************************************************)
IsGetRequest == lastCall.op = "GET"

Blank(param) == ~param.present \/ trim(param.chars) = <<>>

\* The npub cannot be decoded
Undecodable(param) == ~Blank(param) /\ param.chars # ValidNpub

\* The chainId is not a number or not a positive one
BadChainId(param) ==
    ~Blank(param) /\ (parseInt(param.chars).nan \/ parseInt(param.chars).n <= 0)

InvalidRequest ==
    \/ Blank(inp.npub) \/ Undecodable(inp.npub)
    \/ Blank(inp.chainId) \/ BadChainId(inp.chainId)

\* C25 (as stated): the address API answers with status 400 for every invalid
\* input - a missing or empty npub, a missing, non-numeric or non-positive
\* chainId, and an npub that cannot be decoded (error code INVALID_NPUB) -,
\* with status 500 only for failures that are not input errors, and with the
\* resolved address otherwise.
C25_Original ==
    IsGetRequest
    => /\ InvalidRequest => lastCall.status = 400
       /\ (Undecodable(inp.npub) /\ ~Blank(inp.chainId) /\ ~BadChainId(inp.chainId))
          => lastCall.code = "INVALID_NPUB"
       /\ lastCall.status = 500 => (~InvalidRequest /\ inp.rpc = "fail")
       /\ (~InvalidRequest /\ inp.rpc = "ok")
          => /\ lastCall.status = 200
             /\ lastCall.body = <<"address", ValidPubkey, parseInt(inp.chainId.chars).n>>

\* What the route answers: an npub that cannot be decoded is answered with
\* status 500 and code ADDRESS_RESOLUTION_FAILED, like a failure of the RPC
ApiActual ==
    IsGetRequest
    => /\ (Blank(inp.npub) \/ Blank(inp.chainId) \/ BadChainId(inp.chainId))
          => lastCall.status = 400 /\ lastCall.code = "none"
       /\ (Undecodable(inp.npub) /\ ~Blank(inp.chainId) /\ ~BadChainId(inp.chainId))
          => lastCall.status = 500 /\ lastCall.code = "ADDRESS_RESOLUTION_FAILED"
       /\ (~InvalidRequest /\ inp.rpc = "fail")
          => lastCall.status = 500 /\ lastCall.code = "ADDRESS_RESOLUTION_FAILED"
       /\ (~InvalidRequest /\ inp.rpc = "ok") => lastCall.status = 200

(***************************************************************************)
(* Properties of the path to the BIP340 check (SpecVerify)                 *)
(***************************************************************************)
\* The call went through the hash of the message to BIP340 verify and
\* delivered its result: true, or false (the strict form: its error)
DeliversVerifyResult ==
    /\ lastCall.status # "halt"
    /\ lastCall.steps # <<>> /\ Head(lastCall.steps) = "sha256"
    /\ IF verify(inp.px, inp.rx, inp.s, inp.e).valid THEN ReturnedTrue(lastCall)
       ELSE \/ ReturnedFalse(lastCall)
            \/ IsStrict /\ lastCall.status = "revert"
                        /\ lastCall.error = "SignatureVerificationFailed"

\* C26 (as stated): for a 64-byte signature and owner != 0, both verification
\* forms always run through to the BIP340 check: each of the two toHexString
\* calls hands control back to the verifier, and what is delivered to the
\* caller is the result of BIP340 verify(owner, Rx, s, SHA-256(message)); no
\* path ends the call before that check.
C26_Original ==
    (IsLibraryCall /\ PassesLibraryChecks) => DeliversVerifyResult

\* What happens instead: every such call ends in the first toHexString, with
\* the 64 digits of owner as return data, before any hash
EndsInToHexString ==
    (IsLibraryCall /\ PassesLibraryChecks)
    => /\ lastCall.status = "halt"
       /\ lastCall.steps = <<>>
       /\ lastCall.data = Hex64(inp.px)

(***************************************************************************)
(* C27: in useNostrConnection at most one restoration attempt is in flight *)
(* at any time; isRestoring is true while an attempt is in flight and is   *)
(* false again once the attempt has ended (its .finally has run), whether  *)
(* it resolved or rejected.                                                *)
(***************************************************************************)
C27_SingleAttempt ==
    /\ InFlight(hook) <= 1
    /\ hook.isRestoring <=> InFlight(hook) = 1

\* an attempt that follows a rejected one is in flight
C27_Witness ==
    /\ hook.running = 1
    /\ hook.isRestoring
    /\ hook.started = 2

(***************************************************************************)
(* C28: a restoration attempt that fails, or that ends without the account *)
(* initialized, is not retried: at most one attempt is launched while      *)
(* nPubkey does not change, and restoreError keeps the failure message     *)
(* until clearRestoreError runs or the connection state changes.           *)
(***************************************************************************)
AttemptsBounded == hook.started <= 1

MessageKept ==
    (hook.restoreError = FailureMessage /\ hook'.restoreError = NoMessage)
        => hook'.step \in {"clearRestoreError", "connect"}

C28_Original == []AttemptsBounded /\ [][MessageKept]_vars

\* what the effect does: after an attempt that left the account
\* uninitialized has ended, the next render launches another one
RetriedAfterFailure ==
    (hook'.step = "effect" /\ hook.started > 0)
        => /\ needsRestoration(hook)
           /\ ~hook.isRestoring
           /\ hook'.restoreError = NoMessage

C28_Actual == [][RetriedAfterFailure]_vars

(***************************************************************************)
(* C29: sendTransaction and sendERC20Transfer hand a user operation to the *)
(* relays only with its signature attached and with the call's watcher     *)
(* registered, and a call resolves only with the transaction hash of an    *)
(* event emitted after its watcher was registered.                         *)
(***************************************************************************)
C29_WatchBeforePublish ==
    /\ \A r \in tx.relays : r.signature /\ r.watched
    /\ tx.pc = "resolved" => (tx.result > tx.regAt /\ tx.result <= tx.events)

\* a call resolved with the hash of an event, an earlier event having been
\* emitted before its watcher was registered
C29_Witness ==
    /\ tx.pc = "resolved"
    /\ tx.regAt > 0
    /\ \E r \in tx.relays : r.op = tx.call

(***************************************************************************)
(* C30: no watcher of a call stays registered after the call has resolved  *)
(* or rejected.                                                            *)
(***************************************************************************)
C30_Original ==
    (tx.pc \in {"resolved", "rejected"}) => tx.call \notin tx.watchers

\* what the code does: only onLogs unsubscribes
UnsubscribedOnEvent ==
    /\ tx.pc = "resolved" => tx.call \notin tx.watchers
    /\ \A c \in tx.watchers : c <= tx.call

====
